---- MODULE Spec2Model ----
(***************************************************************************)
(* A model of FreeQuantDatabase's partitioned storage engine               *)
(* (src/src/storage/parquet_manager.py) and of the batch tasks of          *)
(* src/main.py that drive it.                                              *)
(*                                                                         *)
(* Text is a sequence of tokens: the characters the code treats specially  *)
(* ("/", "\", "_") are tokens of their own, any other run of characters is *)
(* one token.  A date cell <<y, m, d>> stands for the text "YYYY-MM-DD"    *)
(* (or the date object that prints so); whether it is a date is decided by *)
(* parsing it, as pd.to_datetime does.                                     *)
(***************************************************************************)
EXTENDS Integers, Sequences, FiniteSets, TLC

\* ------------------------------------------------------------------ bounds
\* Longest table (in rows) handed to save_partitioned.
MaxRows == 2
\* Number of save_partitioned calls in one behaviour.
MaxCalls == 2

\* ---------------------------------------------------------------- universe
\* Columns of the tables the callers pass.
Columns == {"date", "code", "close"}
\* A row of such a table.
Row(date, code, close) == [date |-> date, code |-> code, close |-> close]
\* Key cells: a plain code, and two codes that differ only in a separator.
PlainCode == << "sh.600000" >>
SlashCode == << "AH", "/", "B" >>
UnderCode == << "AH", "_", "B" >>
\* The rows a provider may return: the plain code on two days of 2024 (one
\* of them also with a revised close), on a day of 2025 and on a day that is
\* no calendar date, and the two separator codes on one day of 2024.
Rows == { Row(<<2024, 6, 30>>,  PlainCode, 10),
          Row(<<2024, 12, 15>>, PlainCode, 10),
          Row(<<2024, 12, 15>>, PlainCode, 11),
          Row(<<2025, 1, 5>>,   PlainCode, 10),
          Row(<<2025, 2, 30>>,  PlainCode, 10),
          Row(<<2024, 12, 15>>, SlashCode, 10),
          Row(<<2024, 12, 15>>, UnderCode, 10) }
\* The raw cells of the date column.
DateCells == { r.date : r \in Rows }
\* Sequences over S of length at most n.
SeqUpTo(S, n) == UNION { [1..k -> S] : k \in 0..n }
\* The tables a caller may pass (the empty one included).
Tables == SeqUpTo(Rows, MaxRows)
\* category arguments.
Categories == {"stock_price_daily", "market_pe_lg"}
\* (partition_col, key_col) arguments: the two the tasks use with these
\* columns, and one naming an absent column in each position.
ColumnArgs == { <<"date", "code">>, <<"date", "date">>,
                <<"report_date", "code">>, <<"date", "name">> }

\* ------------------------------------------------------------ dates, text
\* pd.NaT, the missing date.
NaT == <<>>
\* Whether y is a leap year.
IsLeap(y) == (y % 4 = 0 /\ y % 100 # 0) \/ y % 400 = 0
\* Days of month m of year y.
DaysInMonth(y, m) ==
  IF m = 2 THEN (IF IsLeap(y) THEN 29 ELSE 28)
  ELSE IF m \in {4, 6, 9, 11} THEN 30 ELSE 31
\* pd.to_datetime(cell, errors='coerce'): the date, or NaT when the cell
\* is no calendar date.
ToDatetime(cell) ==
  IF /\ Len(cell) = 3
     /\ cell[2] \in 1..12
     /\ cell[3] \in 1..DaysInMonth(cell[1], cell[2])
  THEN cell ELSE NaT
\* n printed with two digits, as %m and %d print it.
Pad2(n) == ToString(n \div 10) \o ToString(n % 10)
\* str() of a date cell: one token "YYYY-MM-DD" (it holds no separator the
\* sanitiser touches).
StrDate(cell) ==
  << ToString(cell[1]) \o "-" \o Pad2(cell[2]) \o "-" \o Pad2(cell[3]) >>
\* str(group[key_col].iloc[0]) for a row: the text of its key cell.
KeyText(row, key_col) ==
  IF key_col = "date" THEN StrDate(row.date) ELSE row[key_col]
\* One token of unique_key.replace("/", "_").replace("\\", "_").
SanitizeToken(t) == IF t \in {"/", "\\"} THEN "_" ELSE t
\* safe_filename with the replace calls left out.
SafeFilenameRaw(unique_key) == unique_key \o << ".parquet" >>
\* safe_filename: the sanitised key followed by ".parquet".
SafeFilename(unique_key) ==
  [i \in 1..Len(unique_key) |-> SanitizeToken(unique_key[i])] \o << ".parquet" >>

\* ------------------------------------------------- the storage engine
\* The years a valid date cell of the universe can fall in.
Years == { ToDatetime(c)[1] : c \in { d \in DateCells : ToDatetime(d) # NaT } }
\* The I/O outcomes of one year group: none, mkdir raising, and write_table
\* raising before or after it opened (and so lost) the target file.
FaultKinds == {"none", "mkdir", "write_open", "write_partial"}
\* A healthy file system: no I/O call fails.
NoFaults == [y \in Years |-> "none"]
\* A row keeps its year: temp_date is not NaT (dropna(subset=['year'])).
HasYear(row, partition_col) == ToDatetime(row[partition_col]) # NaT
\* The row with its 'year' column, temp_date.dt.year.
WithYear(row, partition_col) ==
  [c \in Columns \cup {"year"} |->
     IF c = "year" THEN ToDatetime(row[partition_col])[1] ELSE row[c]]
\* df after step 1: the copy with the year column, rows without a year dropped.
Prepared(df, partition_col) ==
  LET kept == SelectSeq(df, LAMBDA r : HasYear(r, partition_col))
  IN [i \in 1..Len(kept) |-> WithYear(kept[i], partition_col)]
\* The elements of a set of integers in ascending order: the order in which
\* groupby yields its groups.
RECURSIVE SortedSeq(_)
SortedSeq(S) ==
  IF S = {} THEN <<>>
  ELSE LET m == CHOOSE x \in S : \A y \in S : x <= y
       IN << m >> \o SortedSeq(S \ {m})
\* The years of a prepared table.
YearsOf(rows) == { rows[i].year : i \in 1..Len(rows) }
\* One group of df.groupby('year'): the rows of that year, in input order.
Group(rows, year) == SelectSeq(rows, LAMBDA r : r.year = year)
\* The file of a group named after the key cell of its last row.
FilePathOfLastRow(category, key_col, year, group) ==
  << category, year, SafeFilename(KeyText(group[Len(group)], key_col)) >>
\* The file of a group: year_dir / safe_filename, named after the key cell of
\* the group's first row.
FilePath(category, key_col, year, group) ==
  << category, year, SafeFilename(KeyText(group[1], key_col)) >>
\* A write that appends to an existing file instead of replacing it.
WriteTableAppend(files, file_path, rows) ==
  [p \in DOMAIN files \cup {file_path} |->
     IF p # file_path THEN files[p]
     ELSE IF p \in DOMAIN files THEN files[p] \o rows ELSE rows]
\* A write that keeps the rows of the existing file which the new table lacks.
WriteTableMerge(files, file_path, rows) ==
  [p \in DOMAIN files \cup {file_path} |->
     IF p # file_path THEN files[p]
     ELSE IF p \in DOMAIN files
          THEN rows \o SelectSeq(files[p],
                                 LAMBDA old : \A i \in 1..Len(rows) : rows[i] # old)
          ELSE rows]
\* pq.write_table(table, file_path): the file holds the rows, whatever it held.
WriteTable(files, file_path, rows) ==
  [p \in DOMAIN files \cup {file_path} |->
     IF p = file_path THEN rows ELSE files[p]]
\* The files without the one at file_path.
Lose(files, file_path) == [p \in DOMAIN files \ {file_path} |-> files[p]]
\* The body of the loop for one group, under the I/O outcome fault.  st is
\* [fs, dirs, log, raised]; raised is set when an exception leaves the method.
WriteGroup(st, category, key_col, year, group, fault) ==
  LET year_dir == << category, year >>
      file_path == FilePath(category, key_col, year, group)
  IN IF year_dir \notin st.dirs /\ fault = "mkdir"
     THEN [st EXCEPT !.raised = TRUE]
     ELSE LET made == [st EXCEPT !.dirs = @ \cup {year_dir}]
              failed == << "write_failed", file_path >>
          IN CASE fault = "write_open" ->
                    [made EXCEPT !.log = Append(@, failed)]
               [] fault = "write_partial" ->
                    [made EXCEPT !.fs = Lose(@, file_path),
                                 !.log = Append(@, failed)]
               [] OTHER ->
                    [made EXCEPT !.fs = WriteTable(@, file_path, group)]
\* The loop over the groups, in ascending year; it ends when a group raises.
RECURSIVE SaveGroups(_, _, _, _, _, _)
SaveGroups(st, rows, years, category, key_col, faults) ==
  IF years = <<>> \/ st.raised THEN st
  ELSE SaveGroups(
         WriteGroup(st, category, key_col, Head(years),
                    Group(rows, Head(years)), faults[Head(years)]),
         rows, Tail(years), category, key_col, faults)
\* An early return that raises instead of reporting.
ReportRaising(st, message) == [st EXCEPT !.raised = TRUE]
\* logger.error(message); return
Report(st, message) == [st EXCEPT !.log = Append(@, << message >>)]
\* ParquetStorage.save_partitioned(df, category, partition_col, key_col).
SavePartitioned(st, df, category, partition_col, key_col, faults) ==
  IF df = <<>> THEN st
  ELSE IF partition_col \notin Columns THEN Report(st, "partition_col_missing")
  ELSE IF key_col \notin Columns THEN Report(st, "key_col_missing")
  ELSE LET rows == Prepared(df, partition_col)
       IN SaveGroups(st, rows, SortedSeq(YearsOf(rows)), category, key_col, faults)

\* ------------------------------------------------------------- the state
VARIABLES
  fs,         \* the files under base_dir: path -> rows
  dirs,       \* the partition directories under base_dir
  log,        \* what the latest call wrote to the log
  raised,     \* whether the latest call ended in an exception
  call,       \* the arguments of the latest call
  prev,       \* the arguments of the call before it
  fsBefore,   \* the files as the latest call found them
  dirsBefore, \* the directories as the latest call found them
  lastPut,    \* (category, year, key) -> the rows the latest write of it put
  ncalls,     \* calls made
  writers,    \* concurrent callers: each one's call and the groups it has left
  batch,      \* a batch task of main.py: its position and what it recorded
  finance,    \* run_finance_update: what each code's provider call came to
  merged,     \* the latest merge_financial_data call: inputs and outcome
  long,       \* the latest clean_financial_report call: input and outcome
  norm,       \* the latest cell normaliser call: input and outcome
  dates,      \* the latest normalize_date call: input and outcome
  period,     \* the latest _parse_ths_report_period call: input and outcome
  daily,      \* the latest clean_daily_market_data call: input and outcome
  listing,    \* fetch_all_stock_codes: the queries made so far and what it returned
  session     \* a BaostockFetcher: its _is_login flag and the provider session

storage == << fs, dirs, log, raised >>
history == << call, prev, fsBefore, dirsBefore, lastPut, ncalls >>
cleaning == << finance, merged, long, norm, dates, period, daily, listing, session >>
vars == << fs, dirs, log, raised, call, prev, fsBefore, dirsBefore, lastPut,
           ncalls, writers, batch, finance, merged, long, norm, dates, period, daily, listing, session >>

\* BaostockFetcher(): _is_login is False and nothing was asked of the
\* provider.  open is whether the provider holds a session; last is the
\* latest method called; asked lists the provider calls (bs.login() answering
\* error_code '0' or another code, bs.logout()), each with the value _is_login
\* had when it was made.
NewFetcher == [is_login |-> FALSE, open |-> FALSE, last |-> "init", asked |-> <<>>]
\* No call: the arguments before the first call.
NoCall == [df |-> <<>>, category |-> "", partition_col |-> "", key_col |-> "",
           faults |-> NoFaults]
\* The empty mapping.
Nothing == [x \in {} |-> <<>>]
\* The concurrent callers.
Writers == {1, 2}
\* A caller that has not called yet.
IdleWriter == [pc |-> "idle", c |-> NoCall, years |-> <<>>]
\* No batch task running.
NoBatch == [task |-> "", pc |-> "idle", pos |-> 1, failed |-> {}, logged |-> {}]
\* ParquetStorage.__init__: an empty base_dir; nothing has been called.
Init ==
  /\ fs = Nothing /\ dirs = {} /\ log = <<>> /\ raised = FALSE
  /\ call = NoCall /\ prev = NoCall /\ fsBefore = Nothing /\ dirsBefore = {}
  /\ lastPut = Nothing /\ ncalls = 0
  /\ writers = [w \in Writers |-> IdleWriter]
  /\ batch = NoBatch
  /\ finance = <<>>
  /\ merged = [pc |-> "idle"]
  /\ long = [pc |-> "idle"]
  /\ norm = [pc |-> "idle"]
  /\ dates = [pc |-> "idle"]
  /\ period = [pc |-> "idle"]
  /\ daily = [pc |-> "idle"]
  /\ listing = [pc |-> "idle"]
  /\ session = NewFetcher
\* Whether a call gets past the early returns of lines 49-57.
Accepted(c) ==
  c.df # <<>> /\ c.partition_col \in Columns /\ c.key_col \in Columns
\* The year groups of a call, each with the storage key it is written under:
\* (category, year, key) -> rows.
Puts(c) ==
  IF ~Accepted(c) THEN Nothing
  ELSE LET rows == Prepared(c.df, c.partition_col)
       IN [t \in { << c.category, y, KeyText(Group(rows, y)[1], c.key_col) >> :
                   y \in YearsOf(rows) } |-> Group(rows, t[2])]
\* Whether the year group y of call c meets an I/O error, given the
\* directories dirs0 the call finds: mkdir runs only for an absent directory.
Fails(c, dirs0, y) ==
  \/ c.faults[y] \in {"write_open", "write_partial"}
  \/ c.faults[y] = "mkdir" /\ << c.category, y >> \notin dirs0
\* The tuples of a call whose file is written: the group meets no I/O error
\* and no earlier group's mkdir raised.
Written(c, dirs0) ==
  { t \in DOMAIN Puts(c) :
      /\ ~Fails(c, dirs0, t[2])
      /\ \A u \in DOMAIN Puts(c) :
           u[2] < t[2] => ~(c.faults[u[2]] = "mkdir" /\ Fails(c, dirs0, u[2])) }
\* One call of save_partitioned with arguments c, as a step of the system.
DoSave(c) ==
  LET out == SavePartitioned([fs |-> fs, dirs |-> dirs, log |-> <<>>,
                              raised |-> FALSE],
                             c.df, c.category, c.partition_col, c.key_col,
                             c.faults)
      puts == Puts(c)
      done == Written(c, dirs)
  IN /\ fs' = out.fs /\ dirs' = out.dirs
     /\ log' = out.log /\ raised' = out.raised
     /\ prev' = call /\ call' = c /\ fsBefore' = fs /\ dirsBefore' = dirs
     /\ lastPut' = [t \in DOMAIN lastPut \cup done |->
                      IF t \in done THEN puts[t] ELSE lastPut[t]]
     /\ ncalls' = ncalls + 1
\* A caller saves a table; every directory creation and write succeeds.
Save ==
  /\ ncalls < MaxCalls
  /\ \E df \in Tables, category \in Categories, ca \in ColumnArgs :
       DoSave([df |-> df, category |-> category, partition_col |-> ca[1],
               key_col |-> ca[2], faults |-> NoFaults])
  /\ UNCHANGED << writers, batch, cleaning >>
Next == Save
\* The storage engine, called sequentially, on a healthy file system.
Spec == Init /\ [][Next]_vars

\* The tables of one entity, as the tasks pass them: every row carries the
\* same code and the unrevised close.
EntityTables ==
  { df \in Tables :
      \A i \in 1..Len(df) : df[i].code = PlainCode /\ df[i].close = 10 }
\* A caller saves a table of one entity while directory creation and writes
\* may fail, each year group in its own way.
SaveFaulty ==
  /\ ncalls < MaxCalls
  /\ \E df \in EntityTables, faults \in [Years -> FaultKinds] :
       DoSave([df |-> df, category |-> "stock_price_daily",
               partition_col |-> "date", key_col |-> "code",
               faults |-> faults])
  /\ UNCHANGED << writers, batch, cleaning >>
NextIO == SaveFaulty
\* The storage engine, called sequentially, on a file system that may fail.
SpecIO == Init /\ [][NextIO]_vars

\* A concurrent caller enters save_partitioned: the early returns and step 1.
Begin(w) ==
  /\ writers[w].pc = "idle"
  /\ \E df \in Tables, key_col \in {"code", "date"} :
       LET c == [df |-> df, category |-> "stock_price_daily",
                 partition_col |-> "date",
                 key_col |-> key_col, faults |-> NoFaults]
           years == IF Accepted(c)
                    THEN SortedSeq(YearsOf(Prepared(df, "date"))) ELSE <<>>
       IN writers' = [writers EXCEPT ![w] =
                        [pc |-> IF years = <<>> THEN "done" ELSE "running",
                         c |-> c, years |-> years]]
  /\ UNCHANGED << storage, history, batch, cleaning >>
\* A concurrent caller runs the loop body for its next year group.
Step(w) ==
  /\ writers[w].pc = "running"
  /\ LET me == writers[w]
         y == Head(me.years)
         out == WriteGroup([fs |-> fs, dirs |-> dirs, log |-> log,
                            raised |-> FALSE],
                           me.c.category, me.c.key_col, y,
                           Group(Prepared(me.c.df, me.c.partition_col), y),
                           "none")
     IN /\ fs' = out.fs /\ dirs' = out.dirs /\ log' = out.log
        /\ writers' = [writers EXCEPT ![w] =
                         [me EXCEPT !.years = Tail(@),
                                    !.pc = IF Tail(me.years) = <<>>
                                           THEN "done" ELSE "running"]]
  /\ UNCHANGED << raised, history, batch, cleaning >>
NextConc == \E w \in Writers : Begin(w) \/ Step(w)
\* Two callers in save_partitioned at once, interleaved group by group.
SpecConc == Init /\ [][NextConc]_vars

\* ------------------------------------------------- the batch tasks
\* The batch tasks of main.py.
Tasks == {"index", "stock", "etf", "finance", "concept", "news", "industry_pe"}
\* Entities (codes, names, dates) a task iterates over.
MaxEntities == 3
\* What can go wrong for one entity: the provider call, the cleaner or
\* save_partitioned raises.
Failures == {"none", "fetch", "clean", "store"}
\* Whether an exception of the provider call leaves the fetcher: the
\* Baostock fetchers have no try, the Akshare and Mootdx ones return an
\* empty table instead.
FetchRaises(task) == task \in {"index", "stock"}
\* Whether the loop body of the task sits in a try.
LoopCatches(task) == task # "index"
\* Whether the except clause of the task's loop writes to the log.
ExceptLogs(task) == task \in {"stock", "etf"}
\* Whether the failure reaches the loop body as an exception.
Escapes(task, failure) ==
  \/ failure \in {"clean", "store"}
  \/ failure = "fetch" /\ FetchRaises(task)
\* One iteration of the task's loop, for the entity at b.pos, under failure.
Iterate(b, failure) ==
  LET seen == [b EXCEPT !.failed = IF failure = "none" THEN @ ELSE @ \cup {b.pos}]
  IN IF Escapes(b.task, failure) /\ ~LoopCatches(b.task)
     THEN [seen EXCEPT !.pc = "aborted"]
     ELSE [seen EXCEPT
             !.logged = IF Escapes(b.task, failure) /\ ExceptLogs(b.task)
                        THEN @ \cup {b.pos} ELSE @,
             !.pos = @ + 1,
             !.pc = IF b.pos + 1 > MaxEntities THEN "done" ELSE "running"]
\* main.py starts one of the tasks.
StartTask ==
  /\ batch.pc = "idle"
  /\ \E task \in Tasks : batch' = [NoBatch EXCEPT !.task = task, !.pc = "running"]
  /\ UNCHANGED << storage, history, writers, cleaning >>
\* The task handles its next entity.
HandleEntity ==
  /\ batch.pc = "running"
  /\ \E failure \in Failures : batch' = Iterate(batch, failure)
  /\ UNCHANGED << storage, history, writers, cleaning >>
NextBatch == StartTask \/ HandleEntity
\* A batch task of main.py run over its entities.
SpecBatch == Init /\ [][NextBatch]_vars

\* ------------------------------------------------- provider calls
\* Codes run_finance_update iterates over.
MaxCodes == 4
\* What the provider answers to a call: a table, no data, an error with the
\* rate-limited signature, or another error.
Responses == {"table", "empty", "rate_limited", "error"}
\* AkshareFetcher.fetch_financial_report(code) when the provider answers r:
\* one provider call; any exception is printed and an empty table returned.
FetchFinancialReport(r) ==
  [df |-> IF r = "table" THEN "table" ELSE "empty",
   calls |-> 1,
   cooldowns |-> 0,
   printed |-> r \in {"rate_limited", "error"}]
\* The loop body of run_finance_update for one code: fetch, clean and save a
\* non-empty table, then the pacing sleep; nothing is written to the log.
FinanceIteration(r) ==
  LET got == FetchFinancialReport(r)
  IN [response |-> r, calls |-> got.calls, cooldowns |-> got.cooldowns,
      printed |-> got.printed, saved |-> got.df # "empty", logged |-> FALSE]
\* run_finance_update handles its next code.
HandleCode ==
  /\ Len(finance) < MaxCodes
  /\ \E r \in Responses : finance' = Append(finance, FinanceIteration(r))
  /\ UNCHANGED << storage, history, writers, batch, merged, long, norm, dates, period, daily, listing, session >>
NextFinance == HandleCode
\* run_finance_update over its codes.
SpecFinance == Init /\ [][NextFinance]_vars

\* ------------------------------------------------- merge_financial_data
\* Longest table (in rows) handed to merge_financial_data.
MaxMergeRows == 2
\* Cells of a report_date column: a date object, the text 'YYYY-MM-DD', the
\* text 'YYYYMMDD', and a text that is no date.
DateObj(ymd) == [form |-> "date", ymd |-> ymd]
IsoText(ymd) == [form |-> "iso", ymd |-> ymd]
CompactText(ymd) == [form |-> "compact", ymd |-> ymd]
NoDateText == [form |-> "text", ymd |-> <<>>]
\* Cells of a code column: a string, or the integer with these digits.
StrCode(digits) == [form |-> "str", text |-> digits]
IntCode(digits) == [form |-> "int", text |-> digits]
\* A missing value in a merged row.
Missing == "NaN"
\* A table: its column names in order and its rows (column -> cell).
Table(cols, rows) == [cols |-> cols, rows |-> rows]
\* pd.DataFrame(): no column, no row.
NoTable == Table(<<>>, <<>>)
\* The column names of a table, as a set.
ColSet(df) == { df.cols[i] : i \in 1..Len(df.cols) }
\* A test for emptiness that never answers yes.
EmptyNever(df) == FALSE
\* df.empty: an axis of length 0.
Empty(df) == df.cols = <<>> \/ df.rows = <<>>
\* pd.to_datetime(cell) raises on this cell (errors is left at 'raise').
DateRaises(cell) == cell.form = "text" \/ ToDatetime(cell.ymd) = NaT
\* pd.to_datetime(cell).date() for a cell it parses.
ToDate(cell) == DateObj(cell.ymd)
\* cell.astype(str)
AsStr(cell) == StrCode(cell.text)
\* Whether converting the key columns of df raises (line 164).
ConvertRaises(df) ==
  /\ "report_date" \in ColSet(df)
  /\ \E i \in 1..Len(df.rows) : DateRaises(df.rows[i]["report_date"])
\* The key columns left as they are.
ConvertKeysSkipped(df) == df
\* df after the loop body of lines 163-166: report_date as dates, code as str.
ConvertKeys(df) ==
  Table(df.cols,
        [i \in 1..Len(df.rows) |->
           [c \in ColSet(df) |->
              IF c = "report_date" THEN ToDate(df.rows[i][c])
              ELSE IF c = "code" THEN AsStr(df.rows[i][c])
              ELSE df.rows[i][c]]])
\* Suffixes that rename the primary's copy of a shared column.
SuffixesSwapped == <<"_ak", "">>
\* suffixes=('', '_bs')
Suffixes == <<"", "_bs">>
\* The columns of side n (1 left, 2 right) that the join renames: the
\* non-key columns present on both sides.
Shared(left, right) == (ColSet(left) \cap ColSet(right)) \ {"code", "report_date"}
\* The result's name of column c of side n.
Renamed(c, n, left, right) ==
  IF c \in Shared(left, right) THEN c \o Suffixes[n] ELSE c
\* The non-key columns of the right side, in order.
RightCols(right) == SelectSeq(right.cols, LAMBDA c : c \notin {"code", "report_date"})
\* The columns of pd.merge's result: the left's, then the right's non-key ones.
MergedCols(left, right) ==
  [i \in 1..Len(left.cols) |-> Renamed(left.cols[i], 1, left, right)]
    \o [i \in 1..Len(RightCols(right)) |->
          Renamed(RightCols(right)[i], 2, left, right)]
\* Whether a left and a right row agree on the keys.
KeysMatch(l, r) == l["code"] = r["code"] /\ l["report_date"] = r["report_date"]
\* A result row from left row l and right row r; r = <<>> when none matches.
JoinRow(l, r, left, right) ==
  [c \in { MergedCols(left, right)[i] : i \in 1..Len(MergedCols(left, right)) } |->
     IF \E d \in ColSet(left) : Renamed(d, 1, left, right) = c
     THEN l[CHOOSE d \in ColSet(left) : Renamed(d, 1, left, right) = c]
     ELSE IF r = <<>> THEN Missing
     ELSE r[CHOOSE d \in ColSet(right) \ {"code", "report_date"} :
              Renamed(d, 2, left, right) = c]]
\* The rows of a left join: for each left row in order its matches in the
\* right's order, or one row of missing values.
RECURSIVE LeftJoinRows(_, _, _)
LeftJoinRows(lrows, left, right) ==
  IF lrows = <<>> THEN <<>>
  ELSE LET l == Head(lrows)
           hits == SelectSeq(right.rows, LAMBDA r : KeysMatch(l, r))
       IN (IF hits = <<>> THEN << JoinRow(l, <<>>, left, right) >>
           ELSE [j \in 1..Len(hits) |-> JoinRow(l, hits[j], left, right)])
          \o LeftJoinRows(Tail(lrows), left, right)
\* pd.merge(df_ak, df_bs, on=['code', 'report_date'], how='left',
\* suffixes=('', '_bs')) inside the try: a KeyError for an absent key column
\* is caught and df_ak returned.
PdMerge(left, right) ==
  IF ~({"code", "report_date"} \subseteq ColSet(left) \cap ColSet(right))
  THEN left
  ELSE Table(MergedCols(left, right), LeftJoinRows(left.rows, left, right))
\* DataCleaner.merge_financial_data(df_ak, df_bs): the returned table, whether
\* an exception left the method, and the caller's two tables afterwards.
MergeFinancialData(df_ak, df_bs) ==
  IF Empty(df_ak)
  THEN [raised |-> FALSE, table |-> df_bs, df_ak |-> df_ak, df_bs |-> df_bs]
  ELSE IF Empty(df_bs)
  THEN [raised |-> FALSE, table |-> df_ak, df_ak |-> df_ak, df_bs |-> df_bs]
  ELSE IF ConvertRaises(df_ak)
  THEN [raised |-> TRUE, table |-> NoTable, df_ak |-> df_ak, df_bs |-> df_bs]
  ELSE IF ConvertRaises(df_bs)
  THEN [raised |-> TRUE, table |-> NoTable,
        df_ak |-> ConvertKeys(df_ak), df_bs |-> df_bs]
  ELSE [raised |-> FALSE,
        table |-> PdMerge(ConvertKeys(df_ak), ConvertKeys(df_bs)),
        df_ak |-> ConvertKeys(df_ak), df_bs |-> ConvertKeys(df_bs)]

\* A primary row: code, report_date and the metric netProfit.
AkRow(code, date, profit) ==
  [c \in {"code", "report_date", "netProfit"} |->
     IF c = "code" THEN code ELSE IF c = "report_date" THEN date ELSE profit]
\* A secondary row: code, report_date, netProfit and total_share.
BsRow(code, date, profit, share) ==
  [c \in {"code", "report_date", "netProfit", "total_share"} |->
     IF c = "code" THEN code ELSE IF c = "report_date" THEN date
     ELSE IF c = "netProfit" THEN profit ELSE share]
\* Rows of the primary source: two periods of one code, the date once as
\* text and once as a date, and a row whose period is no date.
AkRows == { AkRow(StrCode("600000"), IsoText(<<2025, 6, 30>>), "1000"),
            AkRow(StrCode("600000"), DateObj(<<2025, 9, 30>>), "2000"),
            AkRow(StrCode("600000"), NoDateText, "3000") }
\* Rows of the secondary source: the same two periods, the code once as an
\* integer and the date once as compact text, and a period of another code.
BsRows == { BsRow(IntCode("600000"), DateObj(<<2025, 6, 30>>), "1001", "50"),
            BsRow(StrCode("600000"), CompactText(<<2025, 9, 30>>), "2002", "60"),
            BsRow(StrCode("000001"), DateObj(<<2025, 6, 30>>), "9", "70") }
\* The column lists the primary arrives with: with and without its code.
AkColumns == { <<"report_date", "netProfit", "code">>, <<"report_date", "netProfit">> }
\* The column lists the secondary arrives with: without and with a metric the
\* primary has too.
BsColumns == { <<"code", "report_date", "total_share">>,
               <<"code", "report_date", "netProfit", "total_share">> }
\* The rows cut down to the columns cols.
Project(rows, cols) ==
  Table(cols, [i \in 1..Len(rows) |->
                 [c \in { cols[j] : j \in 1..Len(cols) } |-> rows[i][c]]])
\* The primary tables a caller may pass: zero rows included, and no table.
AkTables ==
  { Project(rows, cols) : rows \in SeqUpTo(AkRows, MaxMergeRows), cols \in AkColumns }
    \cup {NoTable}
\* The secondary tables a caller may pass.
BsTables ==
  { Project(rows, cols) : rows \in SeqUpTo(BsRows, MaxMergeRows), cols \in BsColumns }
    \cup {NoTable}
\* A caller merges a primary and a secondary table.
Merge ==
  /\ merged.pc = "idle"
  /\ \E df_ak \in AkTables, df_bs \in BsTables :
       merged' = [pc |-> "done", df_ak |-> df_ak, df_bs |-> df_bs,
                  out |-> MergeFinancialData(df_ak, df_bs)]
  /\ UNCHANGED << storage, history, writers, batch, finance, long, norm, dates, period, daily, listing, session >>
NextMerge == Merge
\* merge_financial_data applied to the tables a caller may pass.
SpecMerge == Init /\ [][NextMerge]_vars

\* ------------------------------------------------- raw cells
\* A raw cell is a sequence of tokens: a decimal literal, or a piece of text
\* the normalisers look for ("%", "yi" for the hundred-million suffix, "wan"
\* for the ten-thousand suffix, a blank) or cannot read.
\* Longest raw cell, in tokens.
MaxTokens == 2
\* The literal of the decimal m x 10^e, as float() reads it.
Num(m, e) == [kind |-> "num", m |-> m, e |-> e, s |-> ""]
\* A piece of text.
Sym(s) == [kind |-> "sym", m |-> 0, e |-> 0, s |-> s]
\* The tokens of the raw cells: 2.53, 6.29, 1.2 and 1000, the unit marks, the
\* missing-value texts, a blank and text that is no number.
Tokens == { Num(253, -2), Num(629, -2), Num(12, -1), Num(1000, 0),
            Sym("%"), Sym("yi"), Sym("wan"),
            Sym("--"), Sym("None"), Sym("False"), Sym("nan"),
            Sym(" "), Sym("abc") }
\* The raw cells a provider may return (the empty string included).
RawCells == SeqUpTo(Tokens, MaxTokens)
\* np.nan
NaN == <<>>
\* The float m x 10^e.
Number(m, e) == << m, e >>
\* s.strip(): the blanks at both ends removed.
RECURSIVE Strip(_)
Strip(s) ==
  IF s = <<>> THEN s
  ELSE IF Head(s) = Sym(" ") THEN Strip(Tail(s))
  ELSE IF s[Len(s)] = Sym(" ") THEN Strip(SubSeq(s, 1, Len(s) - 1))
  ELSE s
\* mark in s
Contains(s, mark) == \E i \in 1..Len(s) : s[i] = Sym(mark)
\* s.replace(mark, '')
Replace(s, mark) == SelectSeq(s, LAMBDA t : t # Sym(mark))
\* float(s): [ok, v]; it reads one literal between blanks, and the text nan
\* as NaN; anything else raises ValueError.
Float(s) ==
  LET t == Strip(s)
  IN IF Len(t) = 1 /\ t[1].kind = "num" THEN [ok |-> TRUE, v |-> Number(t[1].m, t[1].e)]
     ELSE IF t = << Sym("nan") >> THEN [ok |-> TRUE, v |-> NaN]
     ELSE [ok |-> FALSE, v |-> NaN]
\* v x 10^k
Scale(v, k) ==
  IF v = NaN THEN NaN ELSE IF v[1] = 0 THEN v ELSE Number(v[1], v[2] + k)
\* clean_pct without the division.
CleanPctUnscaled(val) ==
  LET s == Strip(val)
  IN IF Contains(s, "%") /\ Float(Replace(s, "%")).ok
     THEN Float(Replace(s, "%")).v ELSE NaN
\* clean_pct(val): a raw cell is a string, so pd.isna(val) is false.
CleanPct(val) ==
  LET s == Strip(val)
  IN IF Contains(s, "%")
     THEN (IF Float(Replace(s, "%")).ok
           THEN Scale(Float(Replace(s, "%")).v, -2) ELSE NaN)
     ELSE NaN
\* clean_amount(val)
CleanAmount(val) ==
  LET s == Strip(val)
  IN IF Contains(s, "yi")
     THEN (IF Float(Replace(s, "yi")).ok
           THEN Scale(Float(Replace(s, "yi")).v, 8) ELSE NaN)
     ELSE IF Contains(s, "wan")
     THEN (IF Float(Replace(s, "wan")).ok
           THEN Scale(Float(Replace(s, "wan")).v, 4) ELSE NaN)
     ELSE NaN
\* str(val) of a float: the literal that spells it, 'nan' for NaN.
Str(v) == IF v = NaN THEN << Sym("nan") >> ELSE << Num(v[1], v[2]) >>
\* clean_dividend_data applies the normalisers to a cell; pct2 and amount2
\* are what they give when applied again to the text of their own result.
Normalise ==
  /\ norm.pc = "idle"
  /\ \E cell \in RawCells :
       norm' = [pc |-> "done", cell |-> cell,
                pct |-> CleanPct(cell), amount |-> CleanAmount(cell),
                pct2 |-> CleanPct(Str(CleanPct(cell))),
                amount2 |-> CleanAmount(Str(CleanAmount(cell)))]
  /\ UNCHANGED << storage, history, writers, batch, finance, merged, long, dates, period, daily, listing, session >>
NextNorm == Normalise
\* The cell normalisers applied to the raw cells.
SpecNorm == Init /\ [][NextNorm]_vars

\* ------------------------------------------------- clean_financial_report
\* Column names are written in pinyin: "xuanxiang" is the grouping column,
\* "zhibiao" the metric-name column, "jinglirun" the metric net profit.
\* Longest wide table (in rows) handed to clean_financial_report.
MaxWideRows == 3
\* The digits of a column label read as year, month, day; <<>> for a label
\* that is not eight digits.
LabelDigits(label) ==
  CASE label = "20250630" -> <<2025, 6, 30>>
    [] label = "20250930" -> <<2025, 9, 30>>
    [] label = "20250231" -> <<2025, 2, 31>>
    [] OTHER -> <<>>
\* pd.to_datetime(label, errors='coerce'): the date, or NaT.
LabelDate(label) == ToDatetime(LabelDigits(label))
\* A conversion that reads no cell as a number.
ToNumericMissing(cell) == NaN
\* pd.to_numeric(cell, errors='coerce'): the number a plain literal reads as,
\* NaN for anything else.
ToNumeric(cell) == IF Float(cell).ok THEN Float(cell).v ELSE NaN
\* bool(stock_code)
Truthy(stock_code) == stock_code # ""
\* The code of the last row instead of the first.
StockCodeLast(df) ==
  IF "code" \in ColSet(df) THEN df.rows[Len(df.rows)]["code"] ELSE ""
\* stock_code: df['code'].iloc[0], or None (here "") without a code column.
StockCode(df) == IF "code" \in ColSet(df) THEN df.rows[1]["code"] ELSE ""
\* Duplicates dropped keeping the last of each metric name.
DropDuplicatesLast(rows) ==
  LET kept == { i \in 1..Len(rows) :
                  \A j \in (i + 1)..Len(rows) : rows[j]["zhibiao"] # rows[i]["zhibiao"] }
  IN [k \in 1..Cardinality(kept) |-> rows[SortedSeq(kept)[k]]]
\* df.drop_duplicates(subset=['unique_key']): the first row of each metric
\* name, in input order.
DropDuplicates(rows) ==
  LET kept == { i \in 1..Len(rows) :
                  \A j \in 1..(i - 1) : rows[j]["zhibiao"] # rows[i]["zhibiao"] }
  IN [k \in 1..Cardinality(kept) |-> rows[SortedSeq(kept)[k]]]
\* The columns left once code, xuanxiang and zhibiao are dropped: the rows of
\* df.T, in order.
PeriodCols(df) ==
  SelectSeq(df.cols, LAMBDA c : c \notin {"code", "xuanxiang", "zhibiao"})
\* A transposed row that is kept whatever its label.
KeepsPeriodAlways(label) == TRUE
\* dropna(subset=['report_date']): the transposed row of this label is kept.
KeepsPeriod(label) == LabelDate(label) # NaT
\* The long table of a wide table that has the columns xuanxiang and zhibiao.
Transpose(df) ==
  LET metricRows == DropDuplicates(df.rows)
      metrics == [k \in 1..Len(metricRows) |-> metricRows[k]["zhibiao"]]
      periods == SelectSeq(PeriodCols(df), KeepsPeriod)
      coded == Truthy(StockCode(df))
      cols == <<"report_date">> \o metrics \o (IF coded THEN <<"code">> ELSE <<>>)
  IN Table(cols,
           [i \in 1..Len(periods) |->
              [c \in { cols[j] : j \in 1..Len(cols) } |->
                 IF c = "report_date" THEN DateObj(LabelDate(periods[i]))
                 ELSE IF c = "code" THEN StockCode(df)
                 ELSE ToNumeric(
                        (CHOOSE r \in { metricRows[k] : k \in 1..Len(metricRows) } :
                           r["zhibiao"] = c)[periods[i]])]])
\* DataCleaner.clean_financial_report(df): the returned table, and whether an
\* exception (the KeyError of df['zhibiao']) left the method.
CleanFinancialReport(df) ==
  IF Empty(df) THEN [raised |-> FALSE, table |-> df]
  ELSE IF "xuanxiang" \in ColSet(df)
  THEN (IF "zhibiao" \notin ColSet(df)
        THEN [raised |-> TRUE, table |-> NoTable]
        ELSE [raised |-> FALSE, table |-> Transpose(df)])
  ELSE [raised |-> FALSE, table |-> NoTable]

\* The caller's table after clean_financial_report(df).  With a code column
\* df.drop(columns=['code']) hands the method a new object and the caller's is
\* left alone; without one, df['unique_key'] = df['zhibiao'] adds the column
\* to the caller's object (the KeyError of a missing zhibiao comes first).
ReportCallerTable(df) ==
  IF Empty(df) \/ "code" \in ColSet(df) THEN df
  ELSE IF "xuanxiang" \in ColSet(df) /\ "zhibiao" \in ColSet(df)
  THEN Table(df.cols \o <<"unique_key">>,
             [i \in 1..Len(df.rows) |->
                [c \in ColSet(df) \cup {"unique_key"} |->
                   IF c = "unique_key" THEN df.rows[i]["zhibiao"] ELSE df.rows[i][c]]])
  ELSE df
\* One row of the provider's wide table: its grouping, its metric name, the
\* raw cells of the three period columns and of the stray column, its code.
WideRow(option, metric, june, september, february, code) ==
  [c \in {"xuanxiang", "zhibiao", "20250630", "20250930", "20250231", "note", "code"} |->
     CASE c = "xuanxiang" -> option
       [] c = "zhibiao" -> metric
       [] c = "20250630" -> june
       [] c = "20250930" -> september
       [] c = "20250231" -> february
       [] c = "note" -> << Sym("--") >>
       [] c = "code" -> code]
\* The rows the provider may send: a metric listed twice, under two groupings
\* and with different values, and cells that are not plain numbers.
WideRows ==
  { WideRow("changyong", "jinglirun", << Num(1000, 0) >>, << Num(2000, 0) >>,
            << Num(500, 0) >>, "sh.600000"),
    WideRow("changyong", "roe", << Num(253, -2), Sym("%") >>, << Sym("--") >>,
            << Num(7, 0) >>, "sh.600000"),
    WideRow("chengzhang", "jinglirun", << Num(3000, 0) >>, << Num(4000, 0) >>,
            << Num(600, 0) >>, "sz.000001") }
\* The column layouts a wide table may come in: the documented one, one with
\* a label that is no date and a stray column, one without code, and the
\* layouts that lack the grouping or the metric-name column.
WideColumns ==
  { <<"xuanxiang", "zhibiao", "20250630", "20250930", "code">>,
    <<"xuanxiang", "zhibiao", "20250630", "20250231", "note", "code">>,
    <<"xuanxiang", "zhibiao", "20250231", "code">>,
    <<"xuanxiang", "zhibiao", "20250930", "20250630">>,
    <<"xuanxiang", "20250630", "code">>,
    <<"zhibiao", "20250630", "code">>,
    <<"20250630", "code">> }
\* The wide tables a caller may pass: zero rows included, and no table.
WideTables ==
  { Project(rows, cols) : rows \in SeqUpTo(WideRows, MaxWideRows), cols \in WideColumns }
    \cup {NoTable}
\* One call of clean_financial_report, as run_finance_update makes it on the
\* table it fetched.
CleanReport ==
  /\ long.pc = "idle"
  /\ \E df \in WideTables :
       long' = [pc |-> "done", df |-> df, out |-> CleanFinancialReport(df),
                arg |-> ReportCallerTable(df)]
  /\ UNCHANGED << storage, history, writers, batch, finance, merged, norm, dates, period, daily, listing, session >>
NextReport == CleanReport
\* clean_financial_report applied to the wide tables.
SpecReport == Init /\ [][NextReport]_vars

\* ------------------------------------------------- normalize_date
\* Longest table (in rows) handed to normalize_date.
MaxDateRows == 3
\* None in a date column: a missing value.
NoneCell == [form |-> "none", ymd |-> <<>>]
\* pd.NaT in a date column.
NaTCell == [form |-> "nat", ymd |-> <<>>]
\* A conversion that reads text only and takes a date object for unparseable.
CoerceDateTextOnly(cell) ==
  IF cell.form \in {"iso", "compact"} /\ ToDatetime(cell.ymd) # NaT
  THEN DateObj(cell.ymd) ELSE NaTCell
\* pd.to_datetime(col, errors='coerce').dt.date for one cell: the date of a
\* date object or of a text that spells a calendar date, NaT otherwise.
CoerceDate(cell) ==
  IF cell.form \in {"date", "iso", "compact"} /\ ToDatetime(cell.ymd) # NaT
  THEN DateObj(cell.ymd) ELSE NaTCell
\* The rows kept whatever their date.
DropNaSkipped(rows, date_col) == rows
\* df.dropna(subset=[date_col]): the rows whose date is not missing.
DropNa(rows, date_col) ==
  SelectSeq(rows, LAMBDA r : r[date_col].form \notin {"nat", "none"})
\* DataCleaner.normalize_date(df, date_col).  to_datetime with errors='coerce'
\* raises on none of these cells, so the except branch is not taken.
NormalizeDate(df, date_col) ==
  IF Empty(df) \/ date_col \notin ColSet(df) THEN df
  ELSE Table(df.cols,
             DropNa([i \in 1..Len(df.rows) |->
                       [df.rows[i] EXCEPT ![date_col] = CoerceDate(@)]],
                    date_col))
\* What a date cell may hold: two calendar dates, the 31st of February, text
\* that is no date, nothing.
DateContents == {"leapday", "halfyear", "impossible", "garbage", "none"}
\* The year, month and day a content spells.
YmdOf(content) ==
  CASE content = "leapday" -> <<2024, 2, 29>>
    [] content = "halfyear" -> <<2025, 6, 30>>
    [] content = "impossible" -> <<2025, 2, 31>>
    [] OTHER -> <<>>
\* The cell of a content in a column of the given kind: ISO text, compact
\* text, or date objects (which are calendar dates or missing).
DateCell(kind, content) ==
  IF content = "none" THEN NoneCell
  ELSE IF content = "garbage" THEN NoDateText
  ELSE IF kind = "iso" THEN IsoText(YmdOf(content))
  ELSE IF kind = "compact" THEN CompactText(YmdOf(content))
  ELSE DateObj(YmdOf(content))
\* The table of a column kind and its contents; close numbers the rows.
DateTable(kind, contents, cols) ==
  Table(cols,
        [i \in 1..Len(contents) |->
           [c \in { cols[j] : j \in 1..Len(cols) } |->
              IF c = "close" THEN i ELSE DateCell(kind, contents[i])]])
\* The tables a caller may pass: a provider writes the dates of one table in
\* one form, and a date object is a calendar date.
DateTables ==
  UNION { { DateTable(kind, contents, cols) :
              contents \in SeqUpTo(IF kind = "date"
                                   THEN {"leapday", "halfyear", "none"}
                                   ELSE DateContents, MaxDateRows),
              cols \in { <<"date", "close">>, <<"report_date", "close">>, <<"close">> } } :
          kind \in {"iso", "compact", "date"} }
\* One call of normalize_date, and a second call on what the first returned.
NormDate ==
  /\ dates.pc = "idle"
  /\ \E df \in DateTables, date_col \in {"date", "report_date"} :
       dates' = [pc |-> "done", df |-> df, date_col |-> date_col,
                 once |-> NormalizeDate(df, date_col),
                 twice |-> NormalizeDate(NormalizeDate(df, date_col), date_col)]
  /\ UNCHANGED << storage, history, writers, batch, finance, merged, long, norm, period, daily, listing, session >>
\* normalize_date applied to the tables of dates.
SpecDate == Init /\ [][NormDate]_vars

\* ------------------------------------------------- _parse_ths_report_period
\* A report period is text: its first four characters, then one of the marks
\* "nianbao" (annual), "zhongbao" (half-year), "yiji" (first quarter),
\* "sanji" (third quarter), or other text, or nothing.
\* int(text[:4]): [ok, n]; ok is false where int raises ValueError.
IntOfHead(head) ==
  CASE head = "2022" -> [ok |-> TRUE, n |-> 2022]
    [] head = "2024" -> [ok |-> TRUE, n |-> 2024]
    [] head = "1600" -> [ok |-> TRUE, n |-> 1600]
    [] head = "1678" -> [ok |-> TRUE, n |-> 1678]
    [] head = "2261" -> [ok |-> TRUE, n |-> 2261]
    [] head = "9999" -> [ok |-> TRUE, n |-> 9999]
    [] head = "0000" -> [ok |-> TRUE, n |-> 0]
    [] head = "20" -> [ok |-> TRUE, n |-> 20]
    [] OTHER -> [ok |-> FALSE, n |-> 0]
\* Whether pd.Timestamp(year=year, month=.., day=..) raises.  Year 0 and below
\* is refused by every release; a release whose Timestamp counts nanoseconds
\* only also refuses the years outside 1678..2261.
TimestampRaises(year, nanoOnly) ==
  \/ year < 1
  \/ year > 9999
  \/ nanoOnly /\ (year < 1678 \/ year > 2261)
\* The month and day of a mark, <<>> for text without one of the four marks.
PeriodEnd(mark) ==
  CASE mark = "nianbao" -> <<12, 31>>
    [] mark = "zhongbao" -> <<6, 30>>
    [] mark = "yiji" -> <<3, 31>>
    [] mark = "sanji" -> <<9, 30>>
    [] OTHER -> <<>>
\* DataCleaner._parse_ths_report_period(text): [raised, v], v a date or NaT.
\* int() is inside the try; pd.Timestamp() is not.
ParseThsReportPeriod(text, nanoOnly) ==
  IF ~text.isstr THEN [raised |-> FALSE, v |-> NaT]
  ELSE IF ~IntOfHead(text.head).ok THEN [raised |-> FALSE, v |-> NaT]
  ELSE IF PeriodEnd(text.mark) = <<>> THEN [raised |-> FALSE, v |-> NaT]
  ELSE IF TimestampRaises(IntOfHead(text.head).n, nanoOnly)
  THEN [raised |-> TRUE, v |-> NaT]
  ELSE [raised |-> FALSE, v |-> << IntOfHead(text.head).n >> \o PeriodEnd(text.mark)]
\* The values of the report-period column: texts, and a value that is no
\* string (None).
PeriodTexts ==
  [isstr : {TRUE},
   head : {"2022", "2024", "1600", "1678", "2261", "9999", "0000", "20", "abcd"},
   mark : {"nianbao", "zhongbao", "yiji", "sanji", "jibao", ""}]
    \cup { [isstr |-> FALSE, head |-> "", mark |-> ""] }
\* clean_dividend_data applies the parser to one value of the column.
ParsePeriod ==
  /\ period.pc = "idle"
  /\ \E text \in PeriodTexts, nanoOnly \in BOOLEAN :
       period' = [pc |-> "done", text |-> text, nanoOnly |-> nanoOnly,
                  out |-> ParseThsReportPeriod(text, nanoOnly)]
  /\ UNCHANGED << storage, history, writers, batch, finance, merged, long, norm, dates, daily, listing, session >>
\* _parse_ths_report_period applied to the report periods.
SpecPeriod == Init /\ [][ParsePeriod]_vars

\* ------------------------------------------------- clean_daily_market_data
\* Longest table (in rows) handed to clean_daily_market_data.
MaxDailyRows == 2
\* str(c).lower().strip() for the column names of the tables below.
LowerStrip(c) ==
  CASE c = "Date" -> "date"
    [] c = " date " -> "date"
    [] c = "Close" -> "close"
    [] c = "isST" -> "isst"
    [] OTHER -> c
\* df.columns = [str(c).lower().strip() for c in df.columns]: the columns
\* renamed, the cells where they are.
LowerCased(df) ==
  Table([j \in 1..Len(df.cols) |-> LowerStrip(df.cols[j])],
        [i \in 1..Len(df.rows) |->
           [c \in { LowerStrip(df.cols[j]) : j \in 1..Len(df.cols) } |->
              df.rows[i][CHOOSE old \in ColSet(df) : LowerStrip(old) = c]]])
\* The columns clean_daily_market_data converts with pd.to_numeric.
NumericCols ==
  {"open", "high", "low", "close", "volume", "amount", "turn", "pctchg", "pettm"}
\* pd.to_numeric(cell, errors='coerce') followed by fillna(0).astype(int): 0
\* for NaN, and the digits after the point cut off.
ToIsst(cell) ==
  LET v == ToNumeric(cell)
  IN IF v = NaN THEN << 0, 0 >>
     ELSE IF v[2] >= 0 THEN v ELSE << v[1] \div (10 ^ (0 - v[2])), 0 >>
\* The table with its numeric columns and its isst column converted.
WithNumbers(df) ==
  Table(df.cols,
        [i \in 1..Len(df.rows) |->
           [c \in ColSet(df) |->
              IF c \in NumericCols THEN ToNumeric(df.rows[i][c])
              ELSE IF c = "isst" THEN ToIsst(df.rows[i][c])
              ELSE df.rows[i][c]]])
\* The table with the cells of date_col converted and no row removed: what
\* the assignment df[date_col] = ... of normalize_date leaves in the table
\* object it was handed.
DatesCoerced(df, date_col) ==
  IF Empty(df) \/ date_col \notin ColSet(df) THEN df
  ELSE Table(df.cols,
             [i \in 1..Len(df.rows) |->
                [df.rows[i] EXCEPT ![date_col] = CoerceDate(@)]])
\* The caller's table after clean_daily_market_data(df): df.columns = [...]
\* and the date assignment of normalize_date act on the caller's object; with
\* a date column dropna hands back a new object and the numeric conversions
\* go to that one, without a date column they go to the caller's object too.
DailyCallerTable(df) ==
  IF Empty(df) THEN df
  ELSE IF "date" \in ColSet(LowerCased(df))
  THEN DatesCoerced(LowerCased(df), "date")
  ELSE WithNumbers(LowerCased(df))
\* DataCleaner.clean_daily_market_data(df): the returned table.
CleanDailyMarketData(df) ==
  IF Empty(df) THEN df
  ELSE WithNumbers(NormalizeDate(LowerCased(df), "date"))
\* The column layouts of the daily tables: lower-case names, the provider's
\* capitalised or padded names, a status column, no date column.
DailyColumns ==
  { <<"date", "close">>, <<"Date", "Close">>, <<" date ", "close">>,
    <<"date", "isST">>, <<"close">> }
\* The daily tables a caller may pass.  A row is a date cell (a date, the
\* 31st of February, text that is no date) and a value cell (1000, 2.53,
\* '--'); the value is in the last column.
DailyTables ==
  { Table(cols,
          [i \in 1..Len(cells) |->
             [c \in { cols[j] : j \in 1..Len(cols) } |->
                IF c = cols[Len(cols)] THEN cells[i][2] ELSE cells[i][1]]]) :
      cells \in SeqUpTo({ IsoText(<<2024, 2, 29>>), IsoText(<<2025, 2, 31>>), NoDateText }
                          \X { << Num(1000, 0) >>, << Num(253, -2) >>, << Sym("--") >> },
                        MaxDailyRows),
      cols \in DailyColumns }
\* One call of clean_daily_market_data, as the update tasks make it.
CleanDaily ==
  /\ daily.pc = "idle"
  /\ \E df \in DailyTables :
       daily' = [pc |-> "done", df |-> df, out |-> CleanDailyMarketData(df),
                 arg |-> DailyCallerTable(df)]
  /\ UNCHANGED << storage, history, writers, batch, finance, merged, long, norm, dates, period, listing, session >>
\* clean_daily_market_data applied to the daily tables.
SpecDaily == Init /\ [][CleanDaily]_vars

\* ------------------------------------------------- fetch_all_stock_codes
\* max_retries
MaxRetries == 10
\* A date that does not move.
SameDay(date) == date
\* current_date_obj - datetime.timedelta(days=1)
PrevDay(date) ==
  IF date[3] > 1 THEN << date[1], date[2], date[3] - 1 >>
  ELSE IF date[2] > 1
  THEN << date[1], date[2] - 1, DaysInMonth(date[1], date[2] - 1) >>
  ELSE << date[1] - 1, 12, 31 >>
\* The dates a caller asks for: inside a month, after the end of February of
\* a leap year and of a common year, and after the turn of a year.
StartDates == { <<2024, 6, 28>>, <<2024, 3, 4>>, <<2025, 3, 2>>, <<2025, 1, 3>> }
\* What bs.query_all_stock answers: an error code, no row, or the codes.
Answers ==
  { [kind |-> "error", list |-> <<>>], [kind |-> "empty", list |-> <<>>] }
    \cup { [kind |-> "codes", list |-> l] :
             l \in { << "sh.600000" >>, << "sh.600000", "sz.000001" >> } }
\* The call begins: lines 54-59.
StartListing ==
  /\ listing.pc = "idle"
  /\ \E date \in StartDates :
       listing' = [pc |-> "loop", date |-> date, current |-> date, asked |-> <<>>,
                   answers |-> <<>>, result |-> <<>>]
  /\ UNCHANGED << storage, history, writers, batch, finance, merged, long, norm, dates, period, daily, session >>
\* One pass of the loop of lines 61-81: the query of the current date and
\* what follows from its answer; the last pass without codes ends the call.
QueryAllStock ==
  /\ listing.pc = "loop"
  /\ \E rs \in Answers :
       LET asked == Append(listing.asked, listing.current)
           answers == Append(listing.answers, rs)
       IN IF rs.kind = "codes"
          THEN listing' = [listing EXCEPT !.pc = "done", !.asked = asked,
                                          !.answers = answers, !.result = rs.list]
          ELSE listing' = [listing EXCEPT
                             !.pc = IF Len(asked) = MaxRetries THEN "done" ELSE "loop",
                             !.asked = asked, !.answers = answers,
                             !.current = PrevDay(listing.current)]
  /\ UNCHANGED << storage, history, writers, batch, finance, merged, long, norm, dates, period, daily, session >>
NextListing == StartListing \/ QueryAllStock
\* fetch_all_stock_codes against a provider that may fail on any day, run to
\* its end: the loop is not suspended forever.
SpecListingFair == Init /\ [][NextListing]_vars /\ WF_vars(NextListing)

\* ------------------------------------------------- BaostockFetcher login / logout
\* Provider calls one fetcher makes in one behaviour.
MaxSessionCalls == 6
\* login(), the provider answering error_code '0' (ok) or not.
Login(s, ok) ==
  IF ~s.is_login
  THEN [is_login |-> ok, open |-> s.open \/ ok, last |-> "login",
        asked |-> Append(s.asked, [op |-> IF ok THEN "login_ok" ELSE "login_failed", flag |-> s.is_login])]
  ELSE [s EXCEPT !.last = "login"]
\* A logout that asks the provider and leaves the flag set.
LogoutFlagKept(s) ==
  IF s.is_login
  THEN [s EXCEPT !.open = FALSE, !.last = "logout",
                 !.asked = Append(s.asked, [op |-> "logout", flag |-> s.is_login])]
  ELSE [s EXCEPT !.last = "logout"]
\* logout()
Logout(s) ==
  IF s.is_login
  THEN [is_login |-> FALSE, open |-> FALSE, last |-> "logout",
        asked |-> Append(s.asked, [op |-> "logout", flag |-> s.is_login])]
  ELSE [s EXCEPT !.last = "logout"]
\* A caller calls login().
CallLogin ==
  /\ Len(session.asked) < MaxSessionCalls
  /\ \E ok \in BOOLEAN : session' = Login(session, ok)
  /\ UNCHANGED << storage, history, writers, batch, finance, merged, long, norm, dates, period, daily, listing >>
\* A caller calls logout().
CallLogout ==
  /\ Len(session.asked) < MaxSessionCalls
  /\ session' = Logout(session)
  /\ UNCHANGED << storage, history, writers, batch, finance, merged, long, norm, dates, period, daily, listing >>
\* A with-block is entered: __enter__ calls login().
Enter ==
  /\ Len(session.asked) < MaxSessionCalls
  /\ \E ok \in BOOLEAN : session' = [Login(session, ok) EXCEPT !.last = "enter"]
  /\ UNCHANGED << storage, history, writers, batch, finance, merged, long, norm, dates, period, daily, listing >>
\* A with-block is left: __exit__ calls logout().
Exit ==
  /\ Len(session.asked) < MaxSessionCalls
  /\ session' = [Logout(session) EXCEPT !.last = "exit"]
  /\ UNCHANGED << storage, history, writers, batch, finance, merged, long, norm, dates, period, daily, listing >>
NextSession == CallLogin \/ CallLogout \/ Enter \/ Exit
\* Any sequence of login, logout, __enter__ and __exit__ on one fetcher.
SpecSession == Init /\ [][NextSession]_vars

\* ------------------------------------------------- claims on the storage
\* The date cells of the universe that are calendar dates, and their years.
RealDates == { <<2024, 6, 30>>, <<2024, 12, 15>>, <<2025, 1, 5>> }
RealYears == { d[1] : d \in RealDates }
\* The input rows of df that lie in year y, in input order.
RowsOfYear(df, y) ==
  SelectSeq(df, LAMBDA r : r.date \in RealDates /\ r.date[1] = y)
\* Stored rows without the year column the engine adds.
Logical(stored) ==
  [i \in 1..Len(stored) |-> Row(stored[i].date, stored[i].code, stored[i].close)]
\* A key with "/" and "\" replaced by "_", followed by the extension.
ExpectedName(key) ==
  [i \in 1..Len(key) |-> IF key[i] \in {"/", "\\"} THEN "_" ELSE key[i]]
    \o << ".parquet" >>
\* The file a (category, year, storage key) tuple is kept in.
FileOf(t) == << t[1], t[2], ExpectedName(t[3]) >>
\* Every key text a row of the universe can give, under either key column.
KeyTexts == { KeyText(r, k) : r \in Rows, k \in {"code", "date"} }
\* Whether the latest two calls passed the same arguments but for the table.
SameTarget ==
  /\ call.category = prev.category
  /\ call.partition_col = prev.partition_col
  /\ call.key_col = prev.key_col
\* Whether every row of df carries the key text k.
SingleKey(df, key_col, k) == \A i \in 1..Len(df) : KeyText(df[i], key_col) = k
\* How often row r is stored in the files of a category.
Occurrences(r, category) ==
  Cardinality({ pi \in UNION { {p} \X (1..Len(fs[p])) : p \in DOMAIN fs } :
                  pi[1][1] = category /\ Logical(fs[pi[1]])[pi[2]] = r })

\* C1: for each (category, year, storage key) tuple ever written, one file
\* exists and it holds exactly the rows that the most recent call writing
\* that tuple put there.
C1_LatestWritePerKeyTuple ==
  \A t \in DOMAIN lastPut :
    FileOf(t) \in DOMAIN fs /\ fs[FileOf(t)] = lastPut[t]

\* C2: a second call with the same table, category, partition column and
\* key column leaves every file as the first call left it.
C2_SameCallTwice ==
  (ncalls >= 2 /\ call = prev) => fs = fsBefore
C2_Witness ==
  /\ ncalls = 2 /\ call = prev
  /\ Cardinality(DOMAIN Puts(call)) = 2
  /\ \A t \in DOMAIN Puts(call) : FileOf(t) \in DOMAIN fs

\* C3: after a write for a category and key, a call for the same category
\* and key whose periods strictly include the first table's leaves in each
\* year file of the first write exactly the second table's rows of that year.
C3_Premise(k) ==
  /\ ncalls >= 2 /\ SameTarget
  /\ call.partition_col = "date" /\ call.key_col \in Columns
  /\ prev.df # <<>> /\ SingleKey(prev.df, prev.key_col, k)
  /\ SingleKey(call.df, call.key_col, k)
  /\ { prev.df[i].date : i \in 1..Len(prev.df) } \subseteq RealDates
  /\ { prev.df[i].date : i \in 1..Len(prev.df) }
       \subseteq { call.df[i].date : i \in 1..Len(call.df) }
  /\ { prev.df[i].date : i \in 1..Len(prev.df) }
       # { call.df[i].date : i \in 1..Len(call.df) }
C3_SupersetReplaces ==
  \A k \in KeyTexts :
    C3_Premise(k) =>
      \A y \in { prev.df[i].date[1] : i \in 1..Len(prev.df) } :
        /\ << call.category, y, ExpectedName(k) >> \in DOMAIN fs
        /\ Logical(fs[<< call.category, y, ExpectedName(k) >>])
             = RowsOfYear(call.df, y)
C3_Witness ==
  /\ C3_Premise(PlainCode)
  /\ prev.df = << Row(<<2024, 12, 15>>, PlainCode, 11) >>
  /\ call.df = << Row(<<2024, 12, 15>>, PlainCode, 10),
                  Row(<<2024, 6, 30>>, PlainCode, 10) >>
  /\ Len(fs[<< call.category, 2024, ExpectedName(PlainCode) >>]) = 2

\* C4: after the same set of rows has been written twice to a category, in
\* whatever row order and under either key column, each input row occurs
\* exactly once across the files of that category.
C4_NoDuplicateRows ==
  ( /\ ncalls = 2 /\ SameTarget
    /\ call.partition_col = "date" /\ call.key_col \in Columns
    /\ { call.df[i] : i \in 1..Len(call.df) } = { prev.df[i] : i \in 1..Len(prev.df) }
    /\ Len(call.df) = Cardinality({ call.df[i] : i \in 1..Len(call.df) })
    /\ Len(prev.df) = Len(call.df)
    /\ \A i \in 1..Len(call.df) : call.df[i].date \in RealDates )
  => \A i \in 1..Len(call.df) : Occurrences(call.df[i], call.category) = 1

\* C5: a call deletes no file, and it changes only the files of the
\* (category, year, key) tuples of its own year groups: the file of every
\* other category, year or key is as it was.
C5_OnlyOwnTuplesChange ==
  /\ DOMAIN fsBefore \subseteq DOMAIN fs
  /\ \A t \in (Categories \X RealYears \X KeyTexts) \ DOMAIN Puts(call) :
       /\ FileOf(t) \in DOMAIN fs <=> FileOf(t) \in DOMAIN fsBefore
       /\ FileOf(t) \in DOMAIN fs => fs[FileOf(t)] = fsBefore[FileOf(t)]

\* C7: every input row with a derivable year Y is stored in the file
\* <category>/year=<Y>/<sanitised key>.parquet, which lies directly in the
\* partition directory and holds exactly the input rows of year Y; a row
\* without a derivable year is stored in no file.
C7_Example ==
  << Row(<<2024, 12, 15>>, PlainCode, 10), Row(<<2025, 1, 5>>, PlainCode, 10) >>
C7_PlacedByYear ==
  /\ \A p \in DOMAIN fs : \A i \in 1..Len(fs[p]) :
       fs[p][i].date \in RealDates /\ fs[p][i].date[1] = p[2]
  /\ ( /\ ncalls >= 1 /\ call.df # <<>>
       /\ call.partition_col = "date" /\ call.key_col \in Columns )
     => /\ \A y \in RealYears :
             LET want == RowsOfYear(call.df, y)
                 p == << call.category, y,
                         ExpectedName(KeyText(want[1], call.key_col)) >>
             IN want # <<>> =>
                  /\ p \in DOMAIN fs
                  /\ Logical(fs[p]) = want
                  /\ \A j \in 1..Len(p[3]) : p[3][j] \notin {"/", "\\"}
        /\ (call.df = C7_Example /\ call.key_col = "code") =>
             \A y \in {2024, 2025} :
               Len(fs[<< call.category, y, << "sh.600000", ".parquet" >> >>]) = 1
C7_Witness ==
  /\ ncalls >= 1 /\ call.partition_col = "date" /\ call.key_col = "code"
  /\ call.df = << Row(<<2025, 2, 30>>, PlainCode, 10),
                  Row(<<2024, 12, 15>>, SlashCode, 10) >>
  /\ << call.category, 2024, << "AH", "_", "B", ".parquet" >> >> \in DOMAIN fs
  /\ \A p \in DOMAIN fs : p[2] # 2025

\* C8: a call with an empty table, or with a table lacking the partition
\* column or the key column, creates and changes no file and raises
\* nothing; the missing column is reported through the log.
C8_RejectedCallIsNoOp ==
  ( /\ ncalls >= 1
    /\ \/ call.df = <<>>
       \/ call.partition_col \notin Columns
       \/ call.key_col \notin Columns )
  => /\ fs = fsBefore
     /\ ~raised
     /\ call.df = <<>> => log = <<>>
     /\ (call.df # <<>> /\ call.partition_col \notin Columns)
          => log = << << "partition_col_missing" >> >>
     /\ (call.df # <<>> /\ call.partition_col \in Columns)
          => log = << << "key_col_missing" >> >>
C8_Witness ==
  /\ ncalls = 2 /\ fs # Nothing /\ fs = fsBefore
  /\ call.df # <<>> /\ call.key_col \notin Columns
  /\ log # <<>>

\* C6: two calls whose storage keys differ write no common file path, and
\* however they interleave each key's file ends up with that key's rows.
C6_DifferentKeysIndependent ==
  \A k1 \in KeyTexts : \A k2 \in KeyTexts \ {k1} :
    ( /\ writers[1].pc = "done" /\ writers[2].pc = "done"
      /\ writers[1].c.df # <<>> /\ writers[2].c.df # <<>>
      /\ writers[1].c.category = writers[2].c.category
      /\ SingleKey(writers[1].c.df, writers[1].c.key_col, k1)
      /\ SingleKey(writers[2].c.df, writers[2].c.key_col, k2) )
    => /\ { FileOf(t) : t \in DOMAIN Puts(writers[1].c) }
            \cap { FileOf(t) : t \in DOMAIN Puts(writers[2].c) } = {}
       /\ \A w \in Writers : \A t \in DOMAIN Puts(writers[w].c) :
            FileOf(t) \in DOMAIN fs /\ fs[FileOf(t)] = Puts(writers[w].c)[t]

\* C9: when a year group meets an I/O error (creating its directory or
\* writing its file), the call logs it, raises nothing and still writes the
\* file of every other year group.
C9_IoErrorIsolatedPerGroup ==
  (ncalls >= 1 /\ call.df # <<>>) =>
    /\ ~raised
    /\ Len(log) = Cardinality({ t \in DOMAIN Puts(call) :
                                  Fails(call, dirsBefore, t[2]) })
    /\ \A t \in DOMAIN Puts(call) :
         ~Fails(call, dirsBefore, t[2]) =>
           FileOf(t) \in DOMAIN fs /\ fs[FileOf(t)] = Puts(call)[t]

\* C10: in every batch task a failure for one entity never aborts the
\* batch, and the failed entity is recorded as failed in the log.
C10_FailureNeverAbortsBatch ==
  /\ batch.pc # "aborted"
  /\ batch.failed \subseteq batch.logged

\* C11: a provider call that fails with the rate-limited signature is
\* retried after a cooldown (a cooldown before each further attempt), and
\* when it is abandoned the code is reported as failed.
C11_RateLimitedIsRetried ==
  \A i \in 1..Len(finance) :
    finance[i].response = "rate_limited" =>
      /\ finance[i].calls >= 2
      /\ finance[i].cooldowns = finance[i].calls - 1
      /\ finance[i].printed \/ finance[i].logged

\* Whether a table has no row or no column.
HasNoData(df) == df.rows = <<>> \/ df.cols = <<>>
Joined ==
  /\ merged.pc = "done" /\ ~merged.out.raised
  /\ ~HasNoData(merged.df_ak) /\ ~HasNoData(merged.df_bs)
\* Whether both tables of the latest merge have both key columns.
BothKeyed ==
  {"code", "report_date"} \subseteq ColSet(merged.df_ak) \cap ColSet(merged.df_bs)
\* Whether two rows name the same code and the same period, whatever the
\* types the cells are held in.
SameKey(a, b) ==
  a["code"].text = b["code"].text /\ a["report_date"].ymd = b["report_date"].ymd
\* Whether result row x is the primary row a: the same period and the
\* primary's values under the primary's column names.
IsPrimaryRow(x, a) ==
  /\ x["report_date"].ymd = a["report_date"].ymd
  /\ x["netProfit"] = a["netProfit"]
  /\ "code" \in DOMAIN a => x["code"].text = a["code"].text

\* C13: for two non-empty inputs the result is a left outer join on
\* (code, report_date) after conversion: every primary row appears, no result
\* row has a key absent from the primary, and a primary row whose key equals
\* a secondary key after conversion carries that secondary row's values.
C13_LeftJoinOnConvertedKeys ==
  Joined =>
    LET ak == merged.df_ak.rows
        bs == merged.df_bs.rows
        out == merged.out.table.rows
    IN /\ \A i \in 1..Len(ak) : \E j \in 1..Len(out) : IsPrimaryRow(out[j], ak[i])
       /\ \A j \in 1..Len(out) : \E i \in 1..Len(ak) : IsPrimaryRow(out[j], ak[i])
       /\ BothKeyed =>
            /\ \A i \in 1..Len(ak) : \A k \in 1..Len(bs) :
                 SameKey(ak[i], bs[k]) =>
                   \E j \in 1..Len(out) :
                     /\ IsPrimaryRow(out[j], ak[i])
                     /\ out[j]["total_share"] = bs[k]["total_share"]
            /\ \A j \in 1..Len(out) :
                 out[j]["total_share"] = Missing =>
                   \A k \in 1..Len(bs) : ~SameKey(out[j], bs[k])
C13_Witness ==
  /\ Joined /\ BothKeyed
  /\ merged.df_ak.rows[1]["report_date"] = IsoText(<<2025, 6, 30>>)
  /\ Len(merged.df_bs.rows) = 2
  /\ merged.df_bs.rows[1]["report_date"] = DateObj(<<2025, 6, 30>>)
  /\ merged.df_bs.rows[1]["code"] = IntCode("600000")
  /\ merged.df_bs.rows[2]["report_date"] = CompactText(<<2025, 9, 30>>)
  /\ Len(merged.out.table.rows) = 2
  /\ merged.out.table.rows[1]["total_share"] = "50"
  /\ merged.out.table.rows[2]["total_share"] = "60"

\* C14: in the result of the join every column name of the primary appears
\* unchanged, in the primary's order, and holds the primary's values; of a
\* non-key column name that occurs in both inputs only the secondary's copy
\* is renamed, with the suffix _bs.
C14_PrimaryColumnsNeverRenamed ==
  Joined =>
    LET ak == merged.df_ak
        bs == merged.df_bs
        out == merged.out.table
    IN /\ \A i \in 1..Len(ak.cols) : out.cols[i] = ak.cols[i]
       /\ \A j \in 1..Len(out.rows) : \E i \in 1..Len(ak.rows) :
            IsPrimaryRow(out.rows[j], ak.rows[i])
       /\ (BothKeyed /\ "netProfit" \in ColSet(bs)) =>
            /\ "netProfit_bs" \in ColSet(out)
            /\ \A j \in 1..Len(out.rows) :
                 \/ out.rows[j]["netProfit_bs"] = Missing
                 \/ \E k \in 1..Len(bs.rows) :
                      out.rows[j]["netProfit_bs"] = bs.rows[k]["netProfit"]
C14_Witness ==
  /\ Joined /\ BothKeyed
  /\ merged.out.table.cols
       = <<"report_date", "netProfit", "code", "netProfit_bs", "total_share">>
  /\ Len(merged.out.table.rows) = 2
  /\ merged.out.table.rows[1]["netProfit"] = "1000"
  /\ merged.out.table.rows[1]["netProfit_bs"] = "1001"
  /\ merged.out.table.rows[2]["netProfit_bs"] = Missing

\* The missing-value texts: '--', 'None', 'False', 'nan' and the empty string.
Sentinels == { << Sym("--") >>, << Sym("None") >>, << Sym("False") >>,
               << Sym("nan") >>, <<>> }
\* The cell without its blanks and without the unit mark.
Bare(cell, mark) == SelectSeq(cell, LAMBDA t : t \notin {Sym(mark), Sym(" ")})
\* Whether the cell is the literal n with the unit mark.
IsUnitCell(cell, n, mark) ==
  (\E i \in 1..Len(cell) : cell[i] = Sym(mark)) /\ Bare(cell, mark) = << n >>
\* C20: the normalisers give NaN for a missing sentinel, value/100 for a
\* string containing %, value x 1e8 for one containing the hundred-million
\* suffix and value x 1e4 for one containing the ten-thousand suffix (the
\* former tested first); '2.53%' gives 0.0253, '6.29yi' 6.29e8, '1.2wan'
\* 1.2e4 and '--' NaN.
C20_UnitsAndSentinels ==
  norm.pc = "done" =>
    /\ norm.cell \in Sentinels => norm.pct = NaN /\ norm.amount = NaN
    /\ \A n \in { t \in Tokens : t.kind = "num" } :
         /\ IsUnitCell(norm.cell, n, "%") => norm.pct = << n.m, n.e - 2 >>
         /\ IsUnitCell(norm.cell, n, "yi") => norm.amount = << n.m, n.e + 8 >>
         /\ IsUnitCell(norm.cell, n, "wan") => norm.amount = << n.m, n.e + 4 >>
    /\ norm.cell = << Num(253, -2), Sym("%") >> => norm.pct = << 253, -4 >>
    /\ norm.cell = << Num(629, -2), Sym("yi") >> => norm.amount = << 629, 6 >>
    /\ norm.cell = << Num(12, -1), Sym("wan") >> => norm.amount = << 12, 3 >>
    /\ norm.cell = << Sym("--") >> => norm.pct = NaN /\ norm.amount = NaN
C20_Witness ==
  /\ norm.pc = "done"
  /\ norm.cell = << Num(253, -2), Sym("%") >>
  /\ norm.pct = << 253, -4 >>

\* ------------------------------------------------- claims on clean_financial_report
\* A wide report table as the data model describes it: at least one row, the
\* grouping and metric-name columns, and the identity column code.
IsWideReport(df) ==
  /\ df.rows # <<>>
  /\ {"xuanxiang", "zhibiao", "code"} \subseteq ColSet(df)
\* The unique metric names of a wide table.
MetricNames(df) == { df.rows[i]["zhibiao"] : i \in 1..Len(df.rows) }
\* The period columns of a wide table.
PeriodLabels(df) == ColSet(df) \ {"xuanxiang", "zhibiao", "code"}
\* The labels that are calendar dates written YYYYMMDD, and their dates.
DateOfLabel ==
  [l \in {"20250630", "20250930"} |->
     IF l = "20250630" THEN <<2025, 6, 30>> ELSE <<2025, 9, 30>>]
\* Whether a cell of the report_date column is a calendar date.
IsValidDate(cell) ==
  /\ cell.form = "date"
  /\ Len(cell.ymd) = 3
  /\ cell.ymd[2] \in 1..12
  /\ cell.ymd[3] \in 1..DaysInMonth(cell.ymd[1], cell.ymd[2])
FirstRowOf(df, m) ==
  df.rows[CHOOSE i \in 1..Len(df.rows) :
            /\ df.rows[i]["zhibiao"] = m
            /\ \A j \in 1..(i - 1) : df.rows[j]["zhibiao"] # m]
\* Whether a raw cell is one plain number, and the number it spells.
IsPlainNumber(cell) == Len(cell) = 1 /\ cell[1].kind = "num"
NumericValue(cell) == << cell[1].m, cell[1].e >>
\* The wide table of the example: one row of net profit, 1000 at the end of
\* June 2025 and 2000 at the end of September 2025, for sh.600000.
ExampleWide ==
  [cols |-> <<"xuanxiang", "zhibiao", "20250630", "20250930", "code">>,
   rows |-> << [c \in {"xuanxiang", "zhibiao", "20250630", "20250930", "code"} |->
                  CASE c = "xuanxiang" -> "changyong"
                    [] c = "zhibiao" -> "jinglirun"
                    [] c = "20250630" -> << [kind |-> "num", m |-> 1000, e |-> 0, s |-> ""] >>
                    [] c = "20250930" -> << [kind |-> "num", m |-> 2000, e |-> 0, s |-> ""] >>
                    [] c = "code" -> "sh.600000"] >>]
\* The two long rows the example is to give.
ExampleLong ==
  { [report_date |-> [form |-> "date", ymd |-> <<2025, 6, 30>>],
     code |-> "sh.600000", jinglirun |-> <<1000, 0>>],
    [report_date |-> [form |-> "date", ymd |-> <<2025, 9, 30>>],
     code |-> "sh.600000", jinglirun |-> <<2000, 0>>] }
\* C16: for every period column p labelled with a date and every metric m of
\* the wide table, the long table has a row whose report_date is the date of p
\* and whose column m holds the number written in the wide cell at (row m,
\* column p); the example table yields exactly its two rows.
C16_CellsTransposed ==
  (long.pc = "done" /\ IsWideReport(long.df)) =>
    LET t == long.out.table
    IN /\ \A p \in PeriodLabels(long.df) \cap DOMAIN DateOfLabel :
            \E i \in 1..Len(t.rows) :
              /\ t.rows[i]["report_date"].ymd = DateOfLabel[p]
              /\ \A m \in MetricNames(long.df) :
                   IsPlainNumber(FirstRowOf(long.df, m)[p]) =>
                     /\ m \in DOMAIN t.rows[i]
                     /\ t.rows[i][m] = NumericValue(FirstRowOf(long.df, m)[p])
       /\ long.df = ExampleWide =>
            /\ Len(t.rows) = 2
            /\ { t.rows[i] : i \in 1..2 } = ExampleLong
\* The example table has been cleaned and gave two rows.
C16_Witness ==
  /\ long.pc = "done"
  /\ long.df = ExampleWide
  /\ Len(long.out.table.rows) = 2
  /\ long.out.table.rows[1]["jinglirun"] = <<1000, 0>>

\* What a raw cell reads as once held in a numeric column: its number, or
\* the missing value when it is not one plain number.
Reading(cell) == IF IsPlainNumber(cell) THEN NumericValue(cell) ELSE <<>>
\* The rows of a wide table that carry the metric name m, by position.
RowsNamed(df, m) == { i \in 1..Len(df.rows) : df.rows[i]["zhibiao"] = m }
\* How many columns of a table are named c.
ColumnCount(t, c) == Cardinality({ j \in 1..Len(t.cols) : t.cols[j] = c })
\* C17: when several rows of the wide table share a metric name, exactly one
\* of them is retained, the first in input order: the long table has one
\* column of that name, and in every row it holds what the first such row
\* gives for that period, never what a later one gives.
C17_FirstDuplicateKept ==
  (long.pc = "done" /\ IsWideReport(long.df)) =>
    LET t == long.out.table
    IN \A m \in MetricNames(long.df) :
         Cardinality(RowsNamed(long.df, m)) > 1 =>
           /\ ColumnCount(t, m) = 1
           /\ \A p \in PeriodLabels(long.df) \cap DOMAIN DateOfLabel :
                \A i \in 1..Len(t.rows) :
                  t.rows[i]["report_date"].ymd = DateOfLabel[p] =>
                    LET first == long.df.rows[CHOOSE k \in RowsNamed(long.df, m) :
                                                \A j \in RowsNamed(long.df, m) : k <= j]
                    IN t.rows[i][m] = Reading(first[p])
\* Net profit listed twice with different values, 3000 first and 1000 second:
\* the long table holds 3000.
C17_Witness ==
  /\ long.pc = "done"
  /\ IsWideReport(long.df)
  /\ Len(long.df.rows) >= 2
  /\ long.df.rows[1]["zhibiao"] = "jinglirun"
  /\ long.df.rows[2]["zhibiao"] = "jinglirun"
  /\ "20250630" \in ColSet(long.df)
  /\ long.df.rows[1]["20250630"] = << Num(3000, 0) >>
  /\ long.df.rows[2]["20250630"] = << Num(1000, 0) >>
  /\ ColumnCount(long.out.table, "jinglirun") = 1
  /\ \E i \in 1..Len(long.out.table.rows) :
       long.out.table.rows[i]["jinglirun"] = <<3000, 0>>

\* C18: whenever the wide table has a code column, every row of the returned
\* long table carries the entity key: a code column whose value equals the
\* first value of the wide table's code column.
C18_EntityKeyOnEveryRow ==
  (long.pc = "done" /\ "code" \in ColSet(long.df) /\ ~long.out.raised) =>
    LET t == long.out.table
    IN \A i \in 1..Len(t.rows) :
         /\ "code" \in ColSet(t)
         /\ "code" \in DOMAIN t.rows[i]
         /\ t.rows[i]["code"] = long.df.rows[1]["code"]
\* A wide table whose rows disagree on the code, sz.000001 first: both long
\* rows carry sz.000001.
C18_Witness ==
  /\ long.pc = "done"
  /\ IsWideReport(long.df)
  /\ Len(long.df.rows) >= 2
  /\ long.df.rows[1]["code"] = "sz.000001"
  /\ long.df.rows[2]["code"] = "sh.600000"
  /\ Len(long.out.table.rows) = 2
  /\ \A i \in 1..2 : long.out.table.rows[i]["code"] = "sz.000001"

\* C19: clean_financial_report returns an empty table, without raising,
\* whenever the wide table is empty or lacks the metric-name column zhibiao,
\* whether or not the grouping column xuanxiang is present.
C19_FailsSoftWithoutMetricColumn ==
  (long.pc = "done" /\ (HasNoData(long.df) \/ "zhibiao" \notin ColSet(long.df))) =>
    /\ ~long.out.raised
    /\ HasNoData(long.out.table)

\* ------------------------------------------------- claims on the cell normalisers
\* Whether the cell is the literal n alone, blanks aside: no unit mark and
\* no missing-value text.
IsPlainCell(cell, n) == SelectSeq(cell, LAMBDA t : t # Sym(" ")) = << n >>
\* C21: a cell that is no missing sentinel and carries no unit suffix is
\* parsed directly as a float: the normalisers return the number itself for a
\* plain numeric string such as '1000', and NaN only when that parse fails.
C21_PlainNumberParsedDirectly ==
  norm.pc = "done" =>
    \A n \in { t \in Tokens : t.kind = "num" } :
      IsPlainCell(norm.cell, n) =>
        /\ norm.pct = << n.m, n.e >>
        /\ norm.amount = << n.m, n.e >>

\* C22: the cell normalisers are idempotent: normalising the string form of a
\* normalised cell gives the same value again, NaN staying NaN and a number
\* staying the same number.
C22_NormaliserIdempotent ==
  norm.pc = "done" =>
    /\ norm.pct2 = norm.pct
    /\ norm.amount2 = norm.amount

\* ------------------------------------------------- claims on normalize_date
\* Whether a raw date cell spells a calendar date, as a date object, as ISO
\* text YYYY-MM-DD or as compact text YYYYMMDD; and that date.
SpellsDate(cell) ==
  /\ cell.form \in {"date", "iso", "compact"}
  /\ Len(cell.ymd) = 3
  /\ cell.ymd[2] \in 1..12
  /\ cell.ymd[3] \in 1..DaysInMonth(cell.ymd[1], cell.ymd[2])
C24_NormalizeDateIdempotent ==
  dates.pc = "done" => dates.twice = dates.once
\* ISO text with a row that is no date: the first application converts one
\* row and removes the other, the second changes nothing.
C24_Witness ==
  /\ dates.pc = "done"
  /\ dates.date_col = "report_date"
  /\ dates.df.cols = <<"report_date", "close">>
  /\ Len(dates.df.rows) = 2
  /\ dates.df.rows[1]["report_date"] = NoDateText
  /\ dates.df.rows[2]["report_date"] = IsoText(<<2025, 6, 30>>)
  /\ dates.once # dates.df
  /\ Len(dates.twice.rows) = 1
  /\ dates.twice.rows[1]["report_date"] = DateObj(<<2025, 6, 30>>)

\* ------------------------------------------------- claims on parse failures
\* C25: no parse failure propagates as an exception: the report-period parser
\* and the key conversion inside merge_financial_data answer a malformed
\* value, such as a report period with an impossible year, with a missing
\* marker or a dropped row and never raise; the cell normalisers answer a
\* cell that carries two unit marks with NaN.
C25_NoParseFailurePropagates ==
  /\ period.pc = "done" => ~period.out.raised
  /\ merged.pc = "done" => ~merged.out.raised
  /\ (norm.pc = "done" /\ Contains(norm.cell, "%") /\ Contains(norm.cell, "wan")) =>
       norm.pct = NaN /\ norm.amount = NaN

\* ------------------------------------------------- claims on the file of a group
\* The rows of the latest call's table whose partition cell is a calendar
\* date of year y, in input order.
GroupOfCall(y) ==
  SelectSeq(call.df, LAMBDA r : /\ ToDatetime(r[call.partition_col]) # NaT
                                /\ ToDatetime(r[call.partition_col])[1] = y)
\* The years of the latest call's table.
YearsOfCall ==
  { ToDatetime(call.df[i][call.partition_col])[1] :
      i \in { j \in 1..Len(call.df) : ToDatetime(call.df[j][call.partition_col]) # NaT } }
\* The file named after the key cell of the first row of year y.
FirstKeyFile(y) ==
  << call.category, y, SafeFilename(KeyText(GroupOfCall(y)[1], call.key_col)) >>
\* C26: for each year group, save_partitioned names the file after the key
\* column value of the group's first row and writes all rows of the group
\* into that single file, rows whose key value differs from the first row's
\* included; no second file is created for the other key values.
C26_GroupFiledUnderFirstKey ==
  (ncalls > 0 /\ Accepted(call)) =>
    \A y \in YearsOfCall :
      /\ FirstKeyFile(y) \in DOMAIN fs
      /\ Len(fs[FirstKeyFile(y)]) = Len(GroupOfCall(y))
      /\ \A k \in 1..Len(GroupOfCall(y)) :
           \A c \in Columns : fs[FirstKeyFile(y)][k][c] = GroupOfCall(y)[k][c]
      /\ \A p \in DOMAIN fs \ DOMAIN fsBefore :
           (p[1] = call.category /\ p[2] = y) => p = FirstKeyFile(y)
\* A first call with two rows of 2024, sh.600000 first and AH/B second: the
\* file sh.600000.parquet holds both and is the only file.
C26_Witness ==
  /\ ncalls = 1
  /\ call.key_col = "code"
  /\ call.partition_col = "date"
  /\ Len(call.df) = 2
  /\ call.df[1].code = PlainCode
  /\ call.df[2].code = SlashCode
  /\ call.df[1].date = <<2024, 6, 30>>
  /\ DOMAIN fs = { << call.category, 2024, << "sh.600000", ".parquet" >> >> }
  /\ Len(fs[<< call.category, 2024, << "sh.600000", ".parquet" >> >>]) = 2
  /\ fs[<< call.category, 2024, << "sh.600000", ".parquet" >> >>][2].code = SlashCode

\* ------------------------------------------------- claims on the value cells of the long table
\* The value normaliser's result for a raw cell: value/100 for a cell with
\* %, value x 1e8 or x 1e4 for one with a magnitude suffix, the number of a
\* plain numeric cell, NaN for what is left.
Normalized(cell) ==
  IF Contains(cell, "%") THEN CleanPct(cell)
  ELSE IF Contains(cell, "yi") \/ Contains(cell, "wan") THEN CleanAmount(cell)
  ELSE Reading(cell)
\* C27: every value cell of the long table returned by clean_financial_report
\* is the value normaliser's result for the corresponding wide-table cell: a
\* unit-suffixed cell such as '2.53%' becomes 0.0253, and only non-numeric
\* leftover content becomes NaN.
C27_ValueCellsNormalized ==
  (long.pc = "done" /\ IsWideReport(long.df)) =>
    LET t == long.out.table
    IN \A p \in PeriodLabels(long.df) \cap DOMAIN DateOfLabel :
         \A i \in 1..Len(t.rows) :
           t.rows[i]["report_date"].ymd = DateOfLabel[p] =>
             \A m \in MetricNames(long.df) :
               t.rows[i][m] = Normalized(FirstRowOf(long.df, m)[p])

\* ------------------------------------------------- claims on the caller's table
\* C28: tables are passed by value: no cleaning, transpose or merge operation
\* changes the table the caller passed in, other than coercing the type of an
\* existing column.  clean_financial_report adds or removes no column of its
\* input table, clean_daily_market_data does not rename the caller's columns,
\* and merge_financial_data leaves the columns of both its tables as they are.
C28_CallerTableUntouched ==
  /\ long.pc = "done" => long.arg.cols = long.df.cols
  /\ daily.pc = "done" => daily.arg.cols = daily.df.cols
  /\ merged.pc = "done" =>
       /\ merged.out.df_ak.cols = merged.df_ak.cols
       /\ merged.out.df_bs.cols = merged.df_bs.cols

\* ------------------------------------------------- claims on fetch_all_stock_codes
\* The days of the months of year y up to month m.
RECURSIVE DaysUpToMonth(_, _)
DaysUpToMonth(y, m) == IF m = 0 THEN 0 ELSE DaysInMonth(y, m) + DaysUpToMonth(y, m - 1)
\* The number of a calendar day, counted from the first day of 2023.
DayNumber(date) ==
  365 * (date[1] - 2023) + Cardinality({ z \in 2023..(date[1] - 1) : IsLeap(z) })
    + DaysUpToMonth(date[1], date[2] - 1) + date[3]
\* Whether an answer of the provider carries no code.
WithoutCodes(rs) == rs.kind \in {"error", "empty"}
\* What C29 says of every state of a call: at most 10 queries, the first for
\* the given date and each next one for the calendar day before; only the
\* last answer may carry codes; the call returns the codes of that answer, or
\* the empty list once 10 queries brought none.
ListingAsClaimed ==
  listing.pc # "idle" =>
    /\ Len(listing.asked) <= 10
    /\ Len(listing.answers) = Len(listing.asked)
    /\ listing.asked # <<>> => listing.asked[1] = listing.date
    /\ \A k \in 1..(Len(listing.asked) - 1) :
         /\ DayNumber(listing.asked[k + 1]) = DayNumber(listing.asked[k]) - 1
         /\ WithoutCodes(listing.answers[k])
    /\ listing.pc = "loop" =>
         /\ Len(listing.asked) < 10
         /\ \A k \in 1..Len(listing.answers) : WithoutCodes(listing.answers[k])
    /\ listing.pc = "done" =>
         LET last == listing.answers[Len(listing.answers)]
         IN IF WithoutCodes(last)
            THEN Len(listing.asked) = 10 /\ listing.result = <<>>
            ELSE listing.result = last.list /\ listing.result # <<>>
\* C29: fetch_all_stock_codes always terminates after at most 10 provider
\* queries: it starts at the given date, steps back exactly one calendar day
\* after each query that reports an error or returns no code, returns the
\* code list of the first query that returns at least one code, and returns
\* an empty list when all 10 queries fail.
C29_ListingTerminatesWithinTenQueries ==
  []ListingAsClaimed /\ <>(listing.pc = "done")
\* A call for the 2nd of March 2025 whose first three queries bring nothing:
\* the fourth, for the 27th of February, brings the codes.
C29_Witness ==
  /\ listing.pc = "done"
  /\ listing.date = <<2025, 3, 2>>
  /\ Len(listing.asked) = 4
  /\ listing.asked[2] = <<2025, 3, 1>>
  /\ listing.asked[3] = <<2025, 2, 28>>
  /\ listing.asked[4] = <<2025, 2, 27>>
  /\ listing.answers[1].kind = "error"
  /\ listing.answers[2].kind = "empty"
  /\ listing.result = << "sh.600000", "sz.000001" >>

\* ------------------------------------------------- claims on the provider session
\* C30: for every sequence of login, logout, __enter__ and __exit__ calls on
\* a BaostockFetcher, the provider login is invoked only while _is_login is
\* false and the provider logout only while it is true; a failed login leaves
\* _is_login false, and after __exit__ or logout _is_login is false, so a
\* session is never logged out twice or left open after the with-block.
C30_SessionFlagGuardsProvider ==
  /\ \A k \in 1..Len(session.asked) :
       /\ session.asked[k].op \in {"login_ok", "login_failed"} => ~session.asked[k].flag
       /\ session.asked[k].op = "logout" => session.asked[k].flag
  /\ (session.last \in {"login", "enter"} /\ session.asked # <<>>
        /\ session.asked[Len(session.asked)].op = "login_failed") => ~session.is_login
  /\ session.last \in {"logout", "exit"} => ~session.is_login /\ ~session.open
  /\ \A k \in 1..(Len(session.asked) - 1) :
       session.asked[k].op = "logout" => session.asked[k + 1].op # "logout"
\* A with-block whose login failed at first and then succeeded has been left:
\* one logout was asked of the provider and no session is open.
C30_Witness ==
  /\ session.last = "exit"
  /\ Len(session.asked) = 3
  /\ session.asked[1].op = "login_failed"
  /\ session.asked[2].op = "login_ok"
  /\ session.asked[3].op = "logout"
  /\ ~session.is_login
  /\ ~session.open
====
